---- MODULE Spec2Model ----
(***************************************************************************)
(* PyLivestream/stream.py: the Stream plan (configuration load, bitrate    *)
(* selection, FFmpeg argument fragments) and unify_streams.                *)
(*                                                                         *)
(* Python values are modelled as follows.                                  *)
(*   - an optional or dynamically typed attribute is a record [t, v]:      *)
(*     t = "None" | "int" | "float" | "str" | "digits" | "list" | "path"   *)
(*     ("digits" is a str made of decimal digits, kept as the sequence of  *)
(*     its digits so that int() and str() are computed, not assumed);      *)
(*   - a float is modelled only at whole values (v is the whole part), its *)
(*     str() ends in ".0";                                                 *)
(*   - a pathlib.Path is [tilde, rest]: "~" followed by rest, or rest;     *)
(*   - a list of str tokens is a sequence of strings.                      *)
(***************************************************************************)
EXTENDS Integers, Sequences, FiniteSets, TLC

VARIABLES
    self,       \* the Stream object's attributes
    pc,         \* "new": constructed; "loaded": osparam returned; "failed": osparam raised
    platform,   \* sys.platform
    ret,        \* the last call on the plan: [op, arg, err, out]
    streams,    \* unify_streams: the list of plans handed in
    uret        \* unify_streams: [done, none, idx]

vars == <<self, pc, platform, ret, streams, uret>>

----------------------------------------------------------------------------
(* Python values *)

None == [t |-> "None", v |-> 0]
PyIntV(n) == [t |-> "int", v |-> n]
PyFloatV(n) == [t |-> "float", v |-> n]
PyStrV(s) == [t |-> "str", v |-> s]
DigitsV(d) == [t |-> "digits", v |-> d]
ListV(l) == [t |-> "list", v |-> l]
PathV(tilde, rest) == [t |-> "path", v |-> [tilde |-> tilde, rest |-> rest]]

DigitChar(d) ==
    CASE d = 0 -> "0" [] d = 1 -> "1" [] d = 2 -> "2" [] d = 3 -> "3"
      [] d = 4 -> "4" [] d = 5 -> "5" [] d = 6 -> "6" [] d = 7 -> "7"
      [] d = 8 -> "8" [] d = 9 -> "9"

RECURSIVE NatStr(_)
NatStr(n) == IF n < 10 THEN DigitChar(n) ELSE NatStr(n \div 10) \o DigitChar(n % 10)

\* str(int)
IntStr(n) == IF n < 0 THEN "-" \o NatStr(0 - n) ELSE NatStr(n)

RECURSIVE DigitsStr(_)
DigitsStr(d) == IF d = <<>> THEN "" ELSE DigitChar(Head(d)) \o DigitsStr(Tail(d))

RECURSIVE DigitsInt(_, _)
DigitsInt(d, acc) == IF d = <<>> THEN acc ELSE DigitsInt(Tail(d), 10 * acc + Head(d))

\* str(x)
PyStr(x) ==
    CASE x.t = "None" -> "None"
      [] x.t = "int" -> IntStr(x.v)
      [] x.t = "float" -> IntStr(x.v) \o ".0"
      [] x.t = "str" -> x.v
      [] x.t = "digits" -> DigitsStr(x.v)
      [] x.t = "path" -> IF x.v.tilde THEN "~" \o x.v.rest ELSE x.v.rest

\* int(x) for an int or a str of digits
PyInt(x) == IF x.t = "digits" THEN DigitsInt(x.v, 0) ELSE x.v

\* bool(x)
Truthy(x) ==
    CASE x.t = "None" -> FALSE
      [] x.t = "int" -> x.v # 0
      [] x.t = "float" -> x.v # 0
      [] x.t = "str" -> x.v # ""
      [] x.t = "digits" -> x.v # <<>>
      [] x.t = "list" -> x.v # <<>>
      [] x.t = "path" -> TRUE

\* the user's home directory, as Path.expanduser resolves "~"
Home == "/home/user"

\* Path.expanduser
expanduser(p) == IF p.v.tilde THEN PathV(FALSE, Home \o p.v.rest) ELSE p

----------------------------------------------------------------------------
(* Bitrate tables: ordered (height, kbps) pairs *)

BR30 ==
    << <<240, 300>>, <<360, 400>>, <<480, 500>>, <<540, 800>>,
       <<720, 1800>>, <<1080, 3000>>, <<1440, 6000>>, <<2160, 13000>> >>

BR60 ==
    << <<720, 2250>>, <<1080, 4500>>, <<1440, 9000>>, <<2160, 20000>> >>

\* list(T.keys()), list(T.values())
keys(T) == [i \in 1..Len(T) |-> T[i][1]]
values(T) == [i \in 1..Len(T) |-> T[i][2]]

\* bisect.bisect_left(a, x), as a 0-based index: binary search for the first
\* position whose element is not less than x
\* (bisect_right: the first position whose element is greater than x)
RECURSIVE bisect_right_loop(_, _, _, _)
bisect_right_loop(a, x, lo, hi) ==
    IF lo < hi
    THEN LET mid == (lo + hi) \div 2
         IN  IF x < a[mid + 1] THEN bisect_right_loop(a, x, lo, mid)
                               ELSE bisect_right_loop(a, x, mid + 1, hi)
    ELSE lo

RECURSIVE bisect_loop(_, _, _, _)
bisect_loop(a, x, lo, hi) ==
    IF lo < hi
    THEN LET mid == (lo + hi) \div 2
         IN  IF a[mid + 1] < x THEN bisect_loop(a, x, mid + 1, hi)
                               ELSE bisect_loop(a, x, lo, mid)
    ELSE lo

bisect_left(a, x) == bisect_loop(a, x, 0, Len(a))

\* a list subscript l[i] with a 0-based, non-negative i: the element, or IndexError
InRange(l, i) == i < Len(l)

----------------------------------------------------------------------------
(* Inputs: constructor arguments, configuration files, probe results *)

MaxKeyframeSec == 2
MaxLen == 3

Platforms == {"linux", "win32", "darwin"}
ImagePath == PathV(FALSE, "logo.png")
InFiles == {PathV(TRUE, "/video.mp4")}

\* Stream(ini, site, vidsource, image, loop, infn): loop and infn are given for
\* file sources only; the platform varies for screen capture, which branches on it
CtorArgs ==
    {[vidsource |-> vs, image |-> im, loop |-> FALSE, infn |-> None, platform |-> pf] :
        vs \in {"screen"}, im \in {None, ImagePath}, pf \in Platforms}
    \cup
    {[vidsource |-> vs, image |-> im, loop |-> FALSE, infn |-> None, platform |-> "linux"] :
        vs \in {"camera", "tape", "file"}, im \in {None, ImagePath}}
    \cup
    {[vidsource |-> "file", image |-> im, loop |-> lp, infn |-> fn, platform |-> "linux"] :
        im \in {None, ImagePath}, lp \in BOOLEAN, fn \in InFiles}

\* heights as written in an ini file ("WIDTHxHEIGHT"), as digit strings
ConfigHeights ==
    { <<1, 4, 4>>, <<2, 4, 0>>, <<3, 6, 0>>, <<4, 8, 0>>, <<5, 0, 0>>, <<5, 4, 0>>,
      <<7, 2, 0>>, <<1, 0, 0, 0>>, <<1, 0, 8, 0>>, <<1, 4, 4, 0>>, <<2, 1, 6, 0>>,
      <<2, 1, 6, 1>> }
ConfigWidth == <<1, 2, 8, 0>>
ConfigFps == {30, 31, 60}

\* what the probe reports for a media file
ProbeHeights == {240, 500, 720, 1080, 4320}
ProbeFps == {None, PyFloatV(24), PyFloatV(30), PyFloatV(60)}

Overrides == {None, PyIntV(0), PyIntV(2500)}
AudioBps == {PyStrV(""), PyStrV("128k")}
ACaps == {None, PyStrV("pulse")}
AudioChans == {None, PyStrV("default")}
KeyframeSecs == 1..MaxKeyframeSec

\* the [sys.platform] section of the ini file
PlatformCfg(pf) ==
    CASE pf = "linux" -> [vcap |-> "x11grab", hcam |-> "v4l2", videochan |-> "/dev/video0"]
      [] pf = "win32" -> [vcap |-> "gdigrab", hcam |-> "dshow", videochan |-> "video=cam"]
      [] pf = "darwin" -> [vcap |-> "avfoundation", hcam |-> "avfoundation",
                           videochan |-> "default"]

\* sio.get_resolution(infn, probeexe): raises without a file to probe; a width
\* and height, or None when the file does not tell
get_resolution(infn) ==
    IF infn = None THEN {}
    ELSE {None} \cup {ListV(<<PyIntV(1280), PyIntV(h)>>) : h \in ProbeHeights}

\* sio.get_framerate(infn, probeexe)
get_framerate(infn) == IF infn = None THEN {} ELSE ProbeFps

----------------------------------------------------------------------------
(* The Stream object *)

Ret(op, arg, err, out) == [op |-> op, arg |-> arg, err |-> err, out |-> out]
Raise(op, arg, err) == Ret(op, arg, err, <<>>)

\* Stream.__init__: the attributes osparam assigns do not exist yet (pc = "new");
\* they hold None here as a placeholder and are never read before pc = "loaded"
Init ==
    /\ \E a \in CtorArgs :
        /\ self = [vidsource |-> a.vidsource, image |-> a.image, loop |-> a.loop,
                   infn |-> a.infn,
                   res |-> None, fps |-> None, origin |-> None,
                   audiofs |-> None, preset |-> None, videochan |-> None,
                   audiochan |-> None, vcap |-> None, acap |-> None, hcam |-> None,
                   video_kbps |-> None, audio_bps |-> None, keyframe_sec |-> None]
        /\ platform = a.platform
    /\ pc = "new"
    /\ ret = Ret("__init__", "", "", <<>>)
    /\ streams = <<>>
    /\ uret = [done |-> FALSE, none |-> FALSE, idx |-> 0]

\* (res, fps, origin) per video source, or no choice when osparam raises there
SourceParams ==
    CASE self.vidsource = "camera" ->
            {[res |-> ListV(<<DigitsV(ConfigWidth), DigitsV(h)>>), fps |-> PyIntV(f),
              origin |-> None] : h \in ConfigHeights, f \in ConfigFps}
      [] self.vidsource = "screen" ->
            {[res |-> ListV(<<DigitsV(ConfigWidth), DigitsV(h)>>), fps |-> PyIntV(f),
              origin |-> ListV(<<"100", "200">>)] : h \in ConfigHeights, f \in ConfigFps}
      [] self.vidsource = "file" ->
            {[res |-> r, fps |-> f, origin |-> None] :
                r \in get_resolution(self.infn), f \in get_framerate(self.infn)}
      [] OTHER -> {}

\* Stream.osparam. inifound: the ini file exists and holds the site's section
osparam ==
    /\ pc = "new"
    /\ \E inifound \in BOOLEAN :
        IF ~inifound
        THEN /\ pc' = "failed"
             /\ ret' = Raise("osparam", "", "AssertionError")
             /\ UNCHANGED self
        ELSE IF self.vidsource \notin {"camera", "screen", "file"}
        THEN /\ pc' = "failed"
             /\ ret' = Raise("osparam", "", "ValueError")
             /\ UNCHANGED self
        ELSE IF SourceParams = {}
        THEN /\ pc' = "failed"
             /\ ret' = Raise("osparam", "", "TypeError")
             /\ UNCHANGED self
        ELSE \E sp \in SourceParams, ov \in Overrides, ab \in AudioBps, ac \in ACaps,
                ach \in AudioChans, kf \in KeyframeSecs :
             /\ self' = [self EXCEPT
                    !.res = sp.res, !.fps = sp.fps, !.origin = sp.origin,
                    !.audiofs = PyStrV("44100"), !.preset = PyStrV("veryfast"),
                    !.videochan = PyStrV(PlatformCfg(platform).videochan),
                    !.audiochan = ach,
                    !.vcap = PyStrV(PlatformCfg(platform).vcap),
                    !.acap = ac,
                    !.hcam = PyStrV(PlatformCfg(platform).hcam),
                    !.video_kbps = ov, !.audio_bps = ab,
                    !.keyframe_sec = PyIntV(kf)]
             /\ pc' = "loaded"
             /\ ret' = Ret("osparam", "", "", <<>>)
    /\ UNCHANGED <<platform, streams, uret>>

\* Stream.video_bitrate, lines 162-166: the height x the lookup uses
lookup_height_1080 == IF self.res # None THEN PyInt(self.res.v[2]) ELSE 1080
lookup_height == IF self.res # None THEN PyInt(self.res.v[2]) ELSE 720

\* Stream.video_bitrate, lines 168-173: the table the frame rate selects
lookup_table == IF self.fps = None \/ self.fps.v <= 30 THEN BR30 ELSE BR60

\* Stream.video_bitrate
video_bitrate ==
    /\ IF pc # "loaded"
       THEN /\ ret' = Raise("video_bitrate", "", "AttributeError")
            /\ UNCHANGED self
       ELSE IF Truthy(self.video_kbps)
       THEN /\ ret' = Ret("video_bitrate", "", "", <<>>)
            /\ UNCHANGED self
       ELSE IF self.res = None /\ self.vidsource # "file"
       THEN /\ ret' = Raise("video_bitrate", "", "UnboundLocalError")
            /\ UNCHANGED self
       ELSE LET x == lookup_height
                T == lookup_table
                i == bisect_left(keys(T), x)
            IN  IF InRange(values(T), i)
                THEN /\ self' = [self EXCEPT !.video_kbps = PyIntV(values(T)[i + 1])]
                     /\ ret' = Ret("video_bitrate", "", "", <<>>)
                ELSE /\ ret' = Raise("video_bitrate", "", "IndexError")
                     /\ UNCHANGED self
    /\ UNCHANGED <<pc, platform, streams, uret>>

\* a method's outcome: the exception it raises ("" when it returns) and its value
Ok(out) == [err |-> "", out |-> out]
Err(e) == [err |-> e, out |-> <<>>]

\* Stream.screengrab
screengrab_ret ==
    IF pc # "loaded" THEN Err("AttributeError")
    ELSE LET vid1 == <<"-f", PyStr(self.vcap), "-r", PyStr(self.fps)>>
             vid1s == IF self.res # None
                      THEN vid1 \o <<"-s", PyStr(self.res.v[1]) \o "x" \o PyStr(self.res.v[2])>>
                      ELSE vid1
         IN  IF platform = "linux"
             THEN IF self.origin = None THEN Err("AttributeError")
                  ELSE Ok(vid1s \o <<"-i", ":0.0+" \o self.origin.v[1] \o "," \o self.origin.v[2]>>)
             ELSE IF platform = "win32"
             THEN IF self.origin = None THEN Err("AttributeError")
                  ELSE Ok(vid1s \o <<"-offset_x", self.origin.v[1], "-offset_y", self.origin.v[2],
                                    "-i", PyStr(self.videochan)>>)
             ELSE IF platform = "darwin"
             THEN Ok(vid1s \o <<"-i", "0:0">>)
             ELSE Ok(vid1s)

\* Stream.webcam
webcam_ret ==
    IF pc # "loaded" THEN Err("AttributeError")
    ELSE Ok(<<"-f", PyStr(self.hcam), "-r", PyStr(self.fps), "-i", PyStr(self.videochan)>>)

\* (the stream-loop flag placed after the inputs)
filein_ret_looplast ==
    IF self.infn.t # "path" THEN Err("AssertionError")
    ELSE LET fn == expanduser(self.infn)
             vid1 == IF Truthy(self.image) THEN <<"-loop", "1">> ELSE <<"-re">>
             vid1i == IF Truthy(self.image) THEN vid1 \o <<"-i", PyStr(self.image)>>
                      ELSE vid1
             vid1f == vid1i \o <<"-i", PyStr(fn)>>
         IN  Ok(IF self.loop THEN vid1f \o <<"-stream_loop", "-1">> ELSE vid1f)

\* Stream.filein
filein_ret ==
    IF self.infn.t # "path" THEN Err("AssertionError")
    ELSE LET fn == expanduser(self.infn)
             vid1 == IF Truthy(self.image) THEN <<"-loop", "1">> ELSE <<"-re">>
             vid1l == IF self.loop THEN vid1 \o <<"-stream_loop", "-1">> ELSE vid1 \o <<>>
             vid1i == IF Truthy(self.image) THEN vid1l \o <<"-i", PyStr(self.image)>>
                      ELSE vid1l
         IN  Ok(vid1i \o <<"-i", PyStr(fn)>>)

\* int * int, int * float
PyMul(a, b) == IF b.t = "float" THEN PyFloatV(a.v * b.v) ELSE PyIntV(a.v * b.v)

\* (an unset frame rate taken as 25)
videostream_ret_fps25 ==
    LET in == IF self.vidsource = "screen" THEN screengrab_ret
              ELSE IF self.vidsource = "camera" THEN webcam_ret
              ELSE IF self.vidsource = "file" THEN filein_ret
              ELSE Err("ValueError")
        codec == <<"-c:v", "libx264", "-pix_fmt", "yuv420p">>
    IN  IF in.err # "" THEN in
        ELSE IF Truthy(self.image) THEN Ok(<<in.out, codec \o <<"-tune", "stillimage">> >>)
        ELSE IF pc # "loaded" THEN Err("AttributeError")
        ELSE LET fps == IF self.fps # None THEN self.fps ELSE PyFloatV(25)
             IN  Ok(<<in.out,
                      codec \o <<"-preset", PyStr(self.preset),
                                 "-b:v", PyStr(self.video_kbps) \o "k",
                                 "-g", PyStr(PyMul(self.keyframe_sec, fps))>> >>)

\* Stream.videostream: the pair (vid1, vid2)
videostream_ret ==
    LET in == IF self.vidsource = "screen" THEN screengrab_ret
              ELSE IF self.vidsource = "camera" THEN webcam_ret
              ELSE IF self.vidsource = "file" THEN filein_ret
              ELSE Err("ValueError")
        codec == <<"-c:v", "libx264", "-pix_fmt", "yuv420p">>
    IN  IF in.err # "" THEN in
        ELSE IF Truthy(self.image) THEN Ok(<<in.out, codec \o <<"-tune", "stillimage">> >>)
        ELSE IF pc # "loaded" THEN Err("AttributeError")
        ELSE LET fps == IF self.fps # None THEN self.fps ELSE PyFloatV(30)
             IN  Ok(<<in.out,
                      codec \o <<"-preset", PyStr(self.preset),
                                 "-b:v", PyStr(self.video_kbps) \o "k",
                                 "-g", PyStr(PyMul(self.keyframe_sec, fps))>> >>)

\* the guard shared by audiostream and audiocomp
NoAudio == ~Truthy(self.audio_bps) \/ ~Truthy(self.acap) \/ ~Truthy(self.audiochan)

\* (the device flags emitted for file sources too)
audiostream_ret_file ==
    IF pc # "loaded" THEN Err("AttributeError")
    ELSE IF NoAudio THEN Ok(<<>>)
    ELSE Ok(<<"-f", PyStr(self.acap), "-i", PyStr(self.audiochan)>>)

\* Stream.audiostream
audiostream_ret ==
    IF pc # "loaded" THEN Err("AttributeError")
    ELSE IF NoAudio THEN Ok(<<>>)
    ELSE IF ~(self.vidsource = "file")
    THEN Ok(<<"-f", PyStr(self.acap), "-i", PyStr(self.audiochan)>>)
    ELSE Ok(<<>>)

\* Stream.audiocomp
audiocomp_ret ==
    IF pc # "loaded" THEN Err("AttributeError")
    ELSE IF NoAudio THEN Ok(<<>>)
    ELSE Ok(<<"-c:a", "aac", "-b:a", PyStr(self.audio_bps), "-ar", PyStr(self.audiofs)>>)

\* (the buffer sized at 1x the bitrate)
buffer_ret_1x(server) ==
    LET buf == <<"-threads", "0">>
        fmt == IF server = "-" THEN <<"-f", "null">> ELSE <<"-f", "flv">>
    IN  IF ~Truthy(self.image)
        THEN IF pc # "loaded" THEN Err("AttributeError")
             ELSE IF self.video_kbps = None THEN Err("TypeError")
             ELSE Ok(buf \o <<"-maxrate", PyStr(self.video_kbps) \o "k",
                              "-bufsize", PyStr(self.video_kbps) \o "k">> \o fmt)
        ELSE Ok(buf \o <<"-shortest">> \o fmt)

\* Stream.buffer(server)
buffer_ret(server) ==
    LET buf == <<"-threads", "0">>
        fmt == IF server = "-" THEN <<"-f", "null">> ELSE <<"-f", "flv">>
    IN  IF ~Truthy(self.image)
        THEN IF pc # "loaded" THEN Err("AttributeError")
             ELSE IF self.video_kbps = None THEN Err("TypeError")
             ELSE Ok(buf \o <<"-maxrate", PyStr(self.video_kbps) \o "k",
                              "-bufsize", PyStr(PyIntV(2 * self.video_kbps.v)) \o "k">> \o fmt)
        ELSE Ok(buf \o <<"-shortest">> \o fmt)

Servers == {"-", "rtmp://a.rtmp.youtube.com/live2"}

\* a call of a method that only reads the plan
Query(op, arg, r) ==
    /\ ret' = Ret(op, arg, r.err, r.out)
    /\ UNCHANGED <<self, pc, platform, streams, uret>>

videostream == Query("videostream", "", videostream_ret)
audiostream == Query("audiostream", "", audiostream_ret)
audiocomp == Query("audiocomp", "", audiocomp_ret)
screengrab == Query("screengrab", "", screengrab_ret)
webcam == Query("webcam", "", webcam_ret)
filein == Query("filein", "", filein_ret)
buffer == \E server \in Servers : Query("buffer", server, buffer_ret(server))

----------------------------------------------------------------------------
(* unify_streams *)

\* min(range(len(vid_bw)), key=vid_bw.__getitem__): the first index whose key is
\* smaller than every key before it wins; best and i are 0-based
\* (a later equal key replaces the best so far: the last minimum)
RECURSIVE argmin_last_loop(_, _, _)
argmin_last_loop(vid_bw, best, i) ==
    IF i >= Len(vid_bw) THEN best
    ELSE IF vid_bw[i + 1] <= vid_bw[best + 1] THEN argmin_last_loop(vid_bw, i, i + 1)
    ELSE argmin_last_loop(vid_bw, best, i + 1)

RECURSIVE argmin_loop(_, _, _)
argmin_loop(vid_bw, best, i) ==
    IF i >= Len(vid_bw) THEN best
    ELSE IF vid_bw[i + 1] < vid_bw[best + 1] THEN argmin_loop(vid_bw, i, i + 1)
    ELSE argmin_loop(vid_bw, best, i + 1)

unify_streams_ret(ss) ==
    IF ss = <<>> THEN [done |-> TRUE, none |-> TRUE, idx |-> 0]
    ELSE LET vid_bw == [i \in 1..Len(ss) |-> ss[i].video_kbps]
         IN  [done |-> TRUE, none |-> FALSE, idx |-> argmin_loop(vid_bw, 0, 1)]

unify_streams ==
    /\ ~uret.done
    /\ uret' = unify_streams_ret(streams)
    /\ UNCHANGED <<self, pc, platform, ret, streams>>

\* the bitrates of bitrate-resolved plans: table values and an override
ResolvedKbps == {300, 1800, 3000, 4500, 6000}

RECURSIVE SeqsUpTo(_, _)
SeqsUpTo(S, n) ==
    IF n = 0 THEN {<<>>}
    ELSE LET shorter == SeqsUpTo(S, n - 1)
         IN  shorter \cup {Append(q, x) : q \in shorter, x \in S}

\* a collection of built plans, of which unify_streams reads video_kbps
InitUnify ==
    /\ self = [vidsource |-> "camera", image |-> None, loop |-> FALSE, infn |-> None,
               res |-> None, fps |-> None, origin |-> None,
               audiofs |-> None, preset |-> None, videochan |-> None,
               audiochan |-> None, vcap |-> None, acap |-> None, hcam |-> None,
               video_kbps |-> None, audio_bps |-> None, keyframe_sec |-> None]
    /\ platform = "linux"
    /\ pc = "new"
    /\ ret = Ret("__init__", "", "", <<>>)
    /\ streams \in {[i \in 1..Len(q) |-> [video_kbps |-> q[i]]] : q \in SeqsUpTo(ResolvedKbps, MaxLen)}
    /\ uret = [done |-> FALSE, none |-> FALSE, idx |-> 0]

NextUnify == unify_streams

SpecUnify == InitUnify /\ [][NextUnify]_vars

Next ==
    \/ osparam
    \/ video_bitrate
    \/ videostream
    \/ audiostream
    \/ audiocomp
    \/ screengrab
    \/ webcam
    \/ filein
    \/ buffer

Spec == Init /\ [][Next]_vars

----------------------------------------------------------------------------
(* Properties *)

Range(q) == {q[i] : i \in 1..Len(q)}

\* the smallest key of table T that is >= h, and the bitrate T maps a key to
LeastKeyAtLeast(T, h) ==
    CHOOSE k \in Range(keys(T)) :
        k >= h /\ \A j \in Range(keys(T)) : j >= h => k <= j
BitrateOf(T, k) == (CHOOSE p \in Range(T) : p[1] = k)[2]

\* a video_bitrate call is being made on a loaded plan that has no bitrate override
BitrateStep ==
    ret'.op = "video_bitrate" /\ pc = "loaded" /\ self.video_kbps = None

LowFps == self.fps = None \/ self.fps.v <= 30
KnownHeight == PyInt(self.res.v[2])

\* C1: with no override and a known height h <= 2160, video_bitrate sets video_kbps
\* to the bitrate of the smallest key >= h of BR30 (frame rate unset or <= 30) or
\* of BR60 (frame rate > 30); h = 500 at <= 30 fps gives 800, h = 1080 at 60 fps
\* gives 4500.
C1_LeftBisectBitrate ==
    [][ (BitrateStep /\ self.res # None /\ KnownHeight <= 2160) =>
            /\ ret'.err = ""
            /\ LET T == IF LowFps THEN BR30 ELSE BR60
               IN  self'.video_kbps =
                       PyIntV(BitrateOf(T, LeastKeyAtLeast(T, KnownHeight)))
            /\ (KnownHeight = 500 /\ LowFps) => self'.video_kbps = PyIntV(800)
            /\ (KnownHeight = 1080 /\ self.fps # None /\ self.fps.v = 60)
                  => self'.video_kbps = PyIntV(4500)
            /\ (KnownHeight = 1080 /\ LowFps) => self'.video_kbps = PyIntV(3000) ]_vars

C1_Witness ==
    /\ pc = "loaded" /\ ret.op = "video_bitrate" /\ ret.err = ""
    /\ self.res # None /\ KnownHeight = 1080
    /\ self.fps = PyIntV(60)
    /\ self.video_kbps = PyIntV(4500)

\* C2: with no override and a height above every key (h > 2160), video_bitrate
\* does not fail and sets video_kbps to the highest tier, 13000 (frame rate unset
\* or <= 30) or 20000 (frame rate > 30).
C2_ClampToLastTier ==
    [][ (BitrateStep /\ self.res # None /\ KnownHeight > 2160) =>
            /\ ret'.err = ""
            /\ self'.video_kbps = PyIntV(IF LowFps THEN 13000 ELSE 20000) ]_vars

\* C3: an override present in the configuration, whatever its value, is left as
\* video_kbps by video_bitrate, for every resolution and frame rate.
C3_OverrideWins ==
    [][ (ret'.op = "video_bitrate" /\ pc = "loaded" /\ self.video_kbps # None) =>
            self'.video_kbps = self.video_kbps ]_vars

\* C4: unify_streams returns None for an empty collection, and otherwise the
\* leftmost index of a minimal video_kbps; [4500, 3000, 6000] gives 1 and
\* [3000, 3000] gives 0.
C4_LeftmostMinimum ==
    uret.done =>
        LET kbps == [i \in 1..Len(streams) |-> streams[i].video_kbps]
        IN  /\ (streams = <<>>) = uret.none
            /\ streams # <<>> =>
                  /\ uret.idx \in 0..(Len(streams) - 1)
                  /\ \A j \in 1..Len(streams) : kbps[uret.idx + 1] <= kbps[j]
                  /\ \A j \in 1..uret.idx : kbps[j] # kbps[uret.idx + 1]
            /\ kbps = <<4500, 3000, 6000>> => uret.idx = 1
            /\ kbps = <<3000, 3000>> => uret.idx = 0

C4_Witness ==
    /\ uret.done /\ ~uret.none /\ uret.idx = 0
    /\ Len(streams) = 2
    /\ streams[1].video_kbps = 3000 /\ streams[2].video_kbps = 3000

\* token u directly follows token t somewhere in l
Followed(l, t, u) == \E i \in 1..(Len(l) - 1) : l[i] = t /\ l[i + 1] = u
Position(l, t) == CHOOSE i \in 1..Len(l) : l[i] = t

\* C5: buffer starts with -threads 0; without a still image and with a resolved
\* bitrate b it holds -maxrate bk, then -bufsize (2b)k, and no -shortest; with a
\* still image it holds -shortest and neither -maxrate nor -bufsize; it ends with
\* -f null for the destination "-" and -f flv for any other.
C5_Buffer ==
    (ret.op = "buffer" /\ (Truthy(self.image) \/ (pc = "loaded" /\ self.video_kbps # None))) =>
        /\ ret.err = ""
        /\ SubSeq(ret.out, 1, 2) = <<"-threads", "0">>
        /\ SubSeq(ret.out, Len(ret.out) - 1, Len(ret.out)) =
               <<"-f", IF ret.arg = "-" THEN "null" ELSE "flv">>
        /\ IF Truthy(self.image)
           THEN /\ "-shortest" \in Range(ret.out)
                /\ "-maxrate" \notin Range(ret.out)
                /\ "-bufsize" \notin Range(ret.out)
           ELSE /\ Followed(ret.out, "-maxrate", IntStr(self.video_kbps.v) \o "k")
                /\ Followed(ret.out, "-bufsize", IntStr(2 * self.video_kbps.v) \o "k")
                /\ Position(ret.out, "-maxrate") < Position(ret.out, "-bufsize")
                /\ "-shortest" \notin Range(ret.out)
                /\ self.video_kbps.v = 3000 =>
                      /\ Followed(ret.out, "-maxrate", "3000k")
                      /\ Followed(ret.out, "-bufsize", "6000k")

C5_Witness ==
    /\ pc = "loaded" /\ ret.op = "buffer" /\ ret.arg = "-"
    /\ self.image = None /\ self.video_kbps = PyIntV(3000)
    /\ ret.out = <<"-threads", "0", "-maxrate", "3000k", "-bufsize", "6000k", "-f", "null">>

\* C6: audiostream returns [-f, acap, -i, audiochan] when audio_bps, acap and
\* audiochan are all set and the video source is not "file"; it returns an empty
\* list, without error, when any of the three is unset or the source is "file".
C6_AudioStream ==
    (ret.op = "audiostream" /\ pc = "loaded") =>
        /\ ret.err = ""
        /\ IF /\ self.audio_bps.v # "" /\ self.acap # None /\ self.audiochan # None
              /\ self.vidsource # "file"
           THEN ret.out = <<"-f", self.acap.v, "-i", self.audiochan.v>>
           ELSE ret.out = <<>>

C6_Witness ==
    /\ pc = "loaded" /\ ret.op = "audiostream" /\ self.vidsource = "camera"
    /\ ret.out = <<"-f", "pulse", "-i", "default">>

\* C7: filein of a file-source plan returns the pacing flag (-loop 1 with a still
\* image, else -re), then -stream_loop -1 exactly when loop is set, then -i <image>
\* exactly when a still image is set, then -i <media file> as the last two tokens.
C7_FileIn ==
    (ret.op = "filein" /\ self.vidsource = "file" /\ self.infn # None) =>
        /\ ret.err = ""
        /\ ret.out =
              (IF self.image # None THEN <<"-loop", "1">> ELSE <<"-re">>)
              \o (IF self.loop THEN <<"-stream_loop", "-1">> ELSE <<>>)
              \o (IF self.image # None THEN <<"-i", PyStr(self.image)>> ELSE <<>>)
              \o <<"-i", PyStr(expanduser(self.infn))>>
        /\ (self.loop /\ self.image = None /\ self.infn = PathV(TRUE, "/video.mp4")) =>
              ret.out = <<"-re", "-stream_loop", "-1", "-i", "/home/user/video.mp4">>

C7_Witness ==
    /\ ret.op = "filein" /\ self.vidsource = "file" /\ self.loop /\ self.image # None
    /\ ret.out = <<"-loop", "1", "-stream_loop", "-1", "-i", "logo.png",
                   "-i", "/home/user/video.mp4">>

\* C8: on a loaded plan (its source kind is recognized) the output fragment of
\* videostream is -c:v libx264 -pix_fmt yuv420p followed by -tune stillimage alone
\* when a still image is set, and otherwise by -preset <preset>, -b:v <video_kbps>k
\* and -g <keyframe_sec * fps>, fps being 30 when the frame rate is unset; for an
\* unrecognized source kind videostream raises and returns nothing.
C8_VideoStream ==
    /\ (ret.op = "videostream" /\ pc = "loaded") =>
          /\ ret.err = ""
          /\ Len(ret.out) = 2
          /\ SubSeq(ret.out[2], 1, 4) = <<"-c:v", "libx264", "-pix_fmt", "yuv420p">>
          /\ IF self.image # None
             THEN SubSeq(ret.out[2], 5, Len(ret.out[2])) = <<"-tune", "stillimage">>
             ELSE SubSeq(ret.out[2], 5, Len(ret.out[2])) =
                     <<"-preset", self.preset.v,
                       "-b:v", PyStr(self.video_kbps) \o "k",
                       "-g", IF self.fps = None
                             THEN IntStr(self.keyframe_sec.v * 30) \o ".0"
                             ELSE IF self.fps.t = "float"
                             THEN IntStr(self.keyframe_sec.v * self.fps.v) \o ".0"
                             ELSE IntStr(self.keyframe_sec.v * self.fps.v)>>
    /\ (ret.op = "videostream" /\ self.vidsource \notin {"camera", "screen", "file"}) =>
          /\ ret.err = "ValueError"
          /\ ret.out = <<>>

C8_Witness ==
    /\ pc = "loaded" /\ ret.op = "videostream" /\ self.vidsource = "file"
    /\ self.image = None /\ self.fps = None /\ self.keyframe_sec = PyIntV(2)
    /\ ret.out[2] = <<"-c:v", "libx264", "-pix_fmt", "yuv420p", "-preset", "veryfast",
                      "-b:v", "1800k", "-g", "60.0">>

\* C9: on a file-source plan with no override and an unknown resolution,
\* video_bitrate completes and sets video_kbps to the 720 tier: 1800 when the
\* frame rate is unset or <= 30, 2250 when it is > 30.
C9_Assume720 ==
    [][ (BitrateStep /\ self.vidsource = "file" /\ self.res = None) =>
            /\ ret'.err = ""
            /\ self'.video_kbps = PyIntV(IF LowFps THEN 1800 ELSE 2250) ]_vars

C9_Witness ==
    /\ pc = "loaded" /\ ret.op = "video_bitrate" /\ ret.err = ""
    /\ self.vidsource = "file" /\ self.res = None /\ self.fps = PyFloatV(60)
    /\ self.video_kbps = PyIntV(2250)

\* every attribute but video_kbps is the same before and after the step
OnlyKbpsMayChange == self' = [self EXCEPT !.video_kbps = self'.video_kbps]

\* the step repeats the query (same method, same argument) made just before it
RepeatedQuery ==
    /\ ret'.op = ret.op /\ ret'.arg = ret.arg
    /\ ret.op \in {"videostream", "audiostream", "audiocomp", "buffer", "screengrab",
                   "webcam", "filein"}

\* C10: on a loaded plan the only attribute a call changes is video_kbps, and only
\* in a video_bitrate call made while no bitrate is set (so at most once); every
\* other method leaves the plan as it is, and a repeated query returns the same
\* fragment.
C10_OnlyBitrateFillIn ==
    [][ pc = "loaded" =>
            /\ OnlyKbpsMayChange
            /\ self' # self => (ret'.op = "video_bitrate" /\ self.video_kbps = None)
            /\ RepeatedQuery => ret' = ret ]_vars

\* The frame of C10 with "no bitrate is set" read as the code tests it (None or 0):
\* it holds, so C10 fails through the override 0 of C3 alone.
C10_FrameFalsyBitrate ==
    [][ pc = "loaded" =>
            /\ OnlyKbpsMayChange
            /\ self' # self =>
                  /\ ret'.op = "video_bitrate"
                  /\ ~Truthy(self.video_kbps)
                  /\ Truthy(self'.video_kbps)
            /\ RepeatedQuery => ret' = ret ]_vars

====
